---- MODULE Spec2Model ----
(***************************************************************************)
(* Model of the four allreduce connection-matrix generators under          *)
(* sim/datacenter/p6_inc/tm_gen:                                           *)
(*   ring       gen_allreduce_extended.py                                  *)
(*   tree       gen_allreduce_tree_extended.py                             *)
(*   supernode  gen_allreduce_supernode.py                                 *)
(*   inc        gen_allreduce_inc_ded_pod.py                               *)
(* Each script is a straight-line program; a run is modelled statement     *)
(* group by statement group.  The output file is the sequence `lines`      *)
(* (whatever a file of that name held before the run, if one existed);     *)
(* argc is len(sys.argv) and argv the integer arguments the script reads.  *)
(* An optional value (Python None, or an absent field of a flow line) is   *)
(* the empty sequence; a present value t is the one-element sequence <<t>>.*)
(***************************************************************************)
EXTENDS Integers, Sequences, FiniteSets, TLC

VARIABLES gen, argc, argv, pc, out_file_exists, lines, usage_printed,
          srcs, id, trig_id, connections, loc, started, completed

vars == <<gen, argc, argv, pc, out_file_exists, lines, usage_printed,
          srcs, id, trig_id, connections, loc, started, completed>>

(* ------------------------------ bounds --------------------------------- *)
MaxNodes == 4
MaxGroupSize == 4
MaxBranch == 3
MaxIterations == 2
MaxK == 4
MaxChunks == 3
MaxWindow == 2
MaxSeed == 2
ReplayMaxNodes == 3
ReplayMaxIterations == 2
ReplayMaxChunks == 2
ReplayMaxK == 3
ReplayMaxSeed == 1
SupernodeReplayMaxNodes == 4

FlowSizes == {1000}
Fids == {7}

(* ------------------------------ helpers -------------------------------- *)
None == <<>>

Some(x) == <<x>>

Range(sq) == {sq[n] : n \in DOMAIN sq}

\* list(range(n))
RangeList(n) == [j \in 1..n |-> j - 1]

\* every order random.shuffle can leave list(range(n)) in
Perms(n) == {p \in [1..n -> 0..(n - 1)] : \A a, b \in 1..n : a # b => p[a] # p[b]}

\* seed(sd); shuffle(list(range(n))) under CPython's random module,
\* tabulated for sd in 1..4 and n in 0..7 (row sd, column n + 1)
ShuffleTable ==
  << << <<>>, <<0>>, <<1,0>>, <<1,2,0>>, <<3,0,2,1>>, <<2,3,4,0,1>>,
        <<2,3,5,0,4,1>>, <<3,6,5,2,0,4,1>> >>,
     << <<>>, <<0>>, <<1,0>>, <<1,2,0>>, <<1,2,3,0>>, <<2,1,3,4,0>>,
        <<2,3,1,4,5,0>>, <<2,3,1,4,5,0,6>> >>,
     << <<>>, <<0>>, <<1,0>>, <<1,2,0>>, <<3,0,2,1>>, <<0,2,3,4,1>>,
        <<0,2,3,5,4,1>>, <<0,2,3,6,5,4,1>> >>,
     << <<>>, <<0>>, <<1,0>>, <<2,1,0>>, <<2,0,3,1>>, <<3,4,0,2,1>>,
        <<3,5,4,0,2,1>>, <<5,4,6,3,0,2,1>> >> >>

ShuffleSeeded(sd, n) == ShuffleTable[sd][n + 1]

RECURSIVE Insert(_, _)
Insert(x, sq) ==
  IF sq = <<>> THEN <<x>>
  ELSE IF x <= Head(sq) THEN <<x>> \o sq
  ELSE <<Head(sq)>> \o Insert(x, Tail(sq))

\* list.sort()
RECURSIVE Sort(_)
Sort(sq) == IF sq = <<>> THEN <<>> ELSE Insert(Head(sq), Sort(Tail(sq)))

\* the flow counter left where it was
NextId_Stuck(i) == i

\* id += 1 (flow_id += 1 in the INC script)
NextId(i) == i + 1

\* the trigger counter left where it was
NextTrig_Stuck(t) == t

\* trig_id += 1
NextTrig(t) == t + 1

\* field orders of a flow line as the scripts concatenate them
PlainOrder == <<"pair", "id", "start", "size", "send_done_trigger">>

\* the completion trigger written before the annotation
IncOrder_DoneFirst == <<"pair", "id", "start", "size", "send_done_trigger", "semantics">>

IncOrder == <<"pair", "id", "start", "size", "semantics", "send_done_trigger">>

FlowLine(src, dst, fl, gate, size, done, sem, order) ==
  [kind |-> "flow", src |-> src, dst |-> dst, id |-> fl, gate |-> gate,
   size |-> size, done |-> done, sem |-> sem, order |-> order]

NodesLine(n) == [kind |-> "nodes", n |-> n]

ConnectionsLine(n) == [kind |-> "connections", n |-> n]

TriggersLine(n) == [kind |-> "triggers", n |-> n]

CommentLine == [kind |-> "comment"]

TriggerLine(t) == [kind |-> "trigger", tid |-> t]

\* for t in range(1, trig_id + 1): print("trigger id t oneshot")
TriggerSectionLines(last) == [t \in 1..last |-> TriggerLine(t)]

\* lines.insert(1, "Connections c\nTriggers t\n")
InsertHeader(ls, c, t) ==
  SubSeq(ls, 1, 1) \o <<ConnectionsLine(c), TriggersLine(t)>> \o SubSeq(ls, 2, Len(ls))

(* ------------------------- reading a file back ------------------------- *)
IsFlow(l) == l.kind = "flow"

IsTrigger(l) == l.kind = "trigger"

Flows == SelectSeq(lines, IsFlow)

Declared == SelectSeq(lines, IsTrigger)

(* ------------------------------ start ---------------------------------- *)
\* arguments on which the ring script runs to completion
\* (srcs[group * groupsize + n] needs groups * groupsize <= nodes)
RingArgsOver(maxNodes, maxSeed) ==
  {a \in [nodes : 0..maxNodes, conns : 0..maxNodes, groupsize : 1..MaxGroupSize,
          flowsize : FlowSizes, locality : {0, 1}, randseed : 0..maxSeed] :
     (a.conns \div a.groupsize) * a.groupsize <= a.nodes}

RingArgs == RingArgsOver(MaxNodes, MaxSeed)

\* len(sys.argv) each script insists on
ExpectedArgc(g) ==
  CASE g = "ring" -> 8
    [] g = "tree" -> 6
    [] g = "supernode" -> 6
    [] g = "inc" -> 10

\* what a file of the output name holds before the run, if there is one
StaleLines == <<[kind |-> "stale"]>>

InitCommon ==
  /\ pc = "start"
  /\ out_file_exists \in BOOLEAN
  /\ lines = IF out_file_exists THEN StaleLines ELSE <<>>
  /\ usage_printed = FALSE
  /\ srcs = <<>>
  /\ id = 0
  /\ trig_id = 1
  /\ connections = 0
  /\ loc = [x |-> 0]
  /\ started = {}
  /\ completed = {}

(* ------------------------------- ring ---------------------------------- *)
groups == argv.conns \div argv.groupsize

\* [srcs[group * groupsize + n] for n in range(groupsize)]
GroupSrcs(group) == [n \in 1..argv.groupsize |-> srcs[group * argv.groupsize + n]]

\* phase 1 ordering: sorted when locality == 1
GroupSrcsPhase1(group) ==
  IF argv.locality = 1 THEN Sort(GroupSrcs(group)) ELSE GroupSrcs(group)

\* srcs = list(range(nodes)); if randseed != 0: seed(randseed); shuffle(srcs)
RingOrders ==
  IF argv.randseed # 0 THEN {ShuffleSeeded(argv.randseed, argv.nodes)}
  ELSE Perms(argv.nodes)

RingStart ==
  /\ gen = "ring" /\ pc = "start" /\ argc = ExpectedArgc("ring")
  /\ out_file_exists' = TRUE
  /\ \E order \in RingOrders : srcs' = order
  /\ lines' = <<NodesLine(argv.nodes)>>
  /\ loc' = [group |-> 0, s |-> 0, d |-> 1, group_end_triggers |-> <<>>]
  /\ pc' = "ring_p1"
  /\ UNCHANGED <<gen, argc, argv, usage_printed, id, trig_id, connections, started,
                 completed>>

\* a step gated on the trigger before the one its predecessor signals
RingPhase1Flow_GateBehind ==
  /\ pc = "ring_p1"
  /\ loc.group < groups /\ loc.s < argv.groupsize /\ loc.d < argv.groupsize
  /\ LET gs == argv.groupsize
         groupsrcs == GroupSrcsPhase1(loc.group)
         src == (loc.s + loc.d - 1) % gs
         dst == (loc.s + loc.d) % gs
         gate == IF loc.d = 1 THEN None ELSE Some(trig_id - 1)
         t == IF loc.d = 1 THEN trig_id ELSE NextTrig(trig_id)
         done == IF loc.d # gs - 1 THEN Some(t) ELSE None
     IN /\ id' = NextId(id)
        /\ trig_id' = t
        /\ lines' = Append(lines, FlowLine(groupsrcs[src + 1], groupsrcs[dst + 1], NextId(id),
                                           gate, argv.flowsize, done, None, PlainOrder))
        /\ connections' = connections + 1
        /\ loc' = [loc EXCEPT !.d = loc.d + 1]
  /\ UNCHANGED <<gen, argc, argv, out_file_exists, usage_printed, pc, srcs, started,
                 completed>>

RingPhase1Flow ==
  /\ pc = "ring_p1"
  /\ loc.group < groups /\ loc.s < argv.groupsize /\ loc.d < argv.groupsize
  /\ LET gs == argv.groupsize
         groupsrcs == GroupSrcsPhase1(loc.group)
         src == (loc.s + loc.d - 1) % gs
         dst == (loc.s + loc.d) % gs
         gate == IF loc.d = 1 THEN None ELSE Some(trig_id)
         t == IF loc.d = 1 THEN trig_id ELSE NextTrig(trig_id)
         done == IF loc.d # gs - 1 THEN Some(t) ELSE None
     IN /\ id' = NextId(id)
        /\ trig_id' = t
        /\ lines' = Append(lines, FlowLine(groupsrcs[src + 1], groupsrcs[dst + 1], NextId(id),
                                           gate, argv.flowsize, done, None, PlainOrder))
        /\ connections' = connections + 1
        /\ loc' = [loc EXCEPT !.d = loc.d + 1]
  /\ UNCHANGED <<gen, argc, argv, out_file_exists, usage_printed, pc, srcs, started,
                 completed>>

\* one chain per ring: the loop over s left after its first pass
RingPhase1NextS_OneChain ==
  /\ pc = "ring_p1"
  /\ loc.group < groups /\ loc.s < argv.groupsize /\ loc.d >= argv.groupsize
  /\ loc' = [loc EXCEPT !.s = argv.groupsize, !.d = 1]
  /\ UNCHANGED <<gen, argc, argv, out_file_exists, usage_printed, pc, lines, srcs,
                 id, trig_id, connections, started, completed>>

RingPhase1NextS ==
  /\ pc = "ring_p1"
  /\ loc.group < groups /\ loc.s < argv.groupsize /\ loc.d >= argv.groupsize
  /\ loc' = [loc EXCEPT !.s = loc.s + 1, !.d = 1]
  /\ UNCHANGED <<gen, argc, argv, out_file_exists, usage_printed, pc, lines, srcs,
                 id, trig_id, connections, started, completed>>

RingPhase1GroupEnd ==
  /\ pc = "ring_p1"
  /\ loc.group < groups /\ loc.s >= argv.groupsize
  /\ loc' = [loc EXCEPT !.group_end_triggers = Append(loc.group_end_triggers, trig_id - 1),
                        !.group = loc.group + 1, !.s = 0, !.d = 1]
  /\ UNCHANGED <<gen, argc, argv, out_file_exists, usage_printed, pc, lines, srcs,
                 id, trig_id, connections, started, completed>>

RingPhase1Done ==
  /\ pc = "ring_p1"
  /\ loc.group >= groups
  /\ loc' = [g |-> 0, s |-> 0, group_end_triggers |-> loc.group_end_triggers,
             leader_triggers |-> <<>>, leader_done_trigger |-> 0]
  /\ pc' = "ring_p2"
  /\ UNCHANGED <<gen, argc, argv, out_file_exists, usage_printed, lines, srcs, id,
                 trig_id, connections, started, completed>>

RingPhase2Flow ==
  /\ pc = "ring_p2"
  /\ loc.g < groups
  /\ LET leader == srcs[loc.g * argv.groupsize + 1]
         next_leader == srcs[((loc.g + 1) % groups) * argv.groupsize + 1]
     IN /\ trig_id' = NextTrig(trig_id)
        /\ id' = NextId(id)
        /\ lines' = Append(lines, FlowLine(leader, next_leader, NextId(id),
                                           Some(loc.group_end_triggers[loc.g + 1]),
                                           argv.flowsize \div 10, Some(NextTrig(trig_id)),
                                           None, PlainOrder))
        /\ loc' = [loc EXCEPT !.leader_triggers = Append(loc.leader_triggers, NextTrig(trig_id)),
                              !.g = loc.g + 1]
        /\ connections' = connections + 1
  /\ UNCHANGED <<gen, argc, argv, out_file_exists, usage_printed, pc, srcs, started,
                 completed>>

RingPhase2Done ==
  /\ pc = "ring_p2"
  /\ loc.g >= groups
  /\ loc' = [loc EXCEPT !.g = 0, !.s = 0]
  /\ pc' = "ring_p3"
  /\ UNCHANGED <<gen, argc, argv, out_file_exists, usage_printed, lines, srcs, id,
                 trig_id, connections, started, completed>>

\* every hop gated on the leader-done trigger of its ring
RingPhase3Flow_AllOnLeader ==
  /\ pc = "ring_p3"
  /\ loc.g < groups /\ loc.s < argv.groupsize - 1
  /\ LET groupsrcs == GroupSrcs(loc.g)
         \* leader_done_trigger = leader_triggers[g] on entry to the inner loop
         leader_done_trigger ==
           loc.leader_triggers[loc.g + 1]
         more == loc.s < argv.groupsize - 2
     IN /\ id' = NextId(id)
        /\ trig_id' = IF more THEN NextTrig(trig_id) ELSE trig_id
        /\ lines' = Append(lines, FlowLine(groupsrcs[loc.s + 1], groupsrcs[loc.s + 2], NextId(id),
                                           Some(leader_done_trigger), argv.flowsize,
                                           IF more THEN Some(NextTrig(trig_id)) ELSE None,
                                           None, PlainOrder))
        /\ loc' = [loc EXCEPT !.s = loc.s + 1,
                              !.leader_done_trigger =
                                 IF more THEN NextTrig(trig_id) ELSE leader_done_trigger]
        /\ connections' = connections + 1
  /\ UNCHANGED <<gen, argc, argv, out_file_exists, usage_printed, pc, srcs, started,
                 completed>>

RingPhase3Flow ==
  /\ pc = "ring_p3"
  /\ loc.g < groups /\ loc.s < argv.groupsize - 1
  /\ LET groupsrcs == GroupSrcs(loc.g)
         \* leader_done_trigger = leader_triggers[g] on entry to the inner loop
         leader_done_trigger ==
           IF loc.s = 0 THEN loc.leader_triggers[loc.g + 1] ELSE loc.leader_done_trigger
         more == loc.s < argv.groupsize - 2
     IN /\ id' = NextId(id)
        /\ trig_id' = IF more THEN NextTrig(trig_id) ELSE trig_id
        /\ lines' = Append(lines, FlowLine(groupsrcs[loc.s + 1], groupsrcs[loc.s + 2], NextId(id),
                                           Some(leader_done_trigger), argv.flowsize,
                                           IF more THEN Some(NextTrig(trig_id)) ELSE None,
                                           None, PlainOrder))
        /\ loc' = [loc EXCEPT !.s = loc.s + 1,
                              !.leader_done_trigger =
                                 IF more THEN NextTrig(trig_id) ELSE leader_done_trigger]
        /\ connections' = connections + 1
  /\ UNCHANGED <<gen, argc, argv, out_file_exists, usage_printed, pc, srcs, started,
                 completed>>

RingPhase3NextG ==
  /\ pc = "ring_p3"
  /\ loc.g < groups /\ loc.s >= argv.groupsize - 1
  /\ loc' = [loc EXCEPT !.g = loc.g + 1, !.s = 0]
  /\ UNCHANGED <<gen, argc, argv, out_file_exists, usage_printed, pc, lines, srcs,
                 id, trig_id, connections, started, completed>>

RingPhase3Done ==
  /\ pc = "ring_p3"
  /\ loc.g >= groups
  /\ pc' = "trigger_section"
  /\ UNCHANGED <<gen, argc, argv, out_file_exists, usage_printed, lines, srcs, id,
                 trig_id, connections, loc, started, completed>>

(* ------------------------------- tree ---------------------------------- *)
\* arguments on which the tree script runs to completion
TreeArgsOver(maxNodes, maxSeed) ==
  [nodes : 0..maxNodes, branch_factor : 1..MaxBranch, flowsize : FlowSizes,
   randseed : 0..maxSeed]

TreeArgs == TreeArgsOver(MaxNodes, MaxSeed)

\* the parent computed from i instead of i - 1
parents_FromI(i) == i \div argv.branch_factor

\* parents[i] = (i - 1) // branch_factor
parents(i) == (i - 1) \div argv.branch_factor

\* children[parent], in the order the script appends them (ascending i)
RECURSIVE ChildrenUpTo(_, _)
ChildrenUpTo(parent, i) ==
  IF i < 1 THEN <<>>
  ELSE IF parents(i) = parent THEN Append(ChildrenUpTo(parent, i - 1), i)
  ELSE ChildrenUpTo(parent, i - 1)

children(parent) == ChildrenUpTo(parent, argv.nodes - 1)

TreeStart ==
  /\ gen = "tree" /\ pc = "start" /\ argc = ExpectedArgc("tree")
  /\ out_file_exists' = TRUE
  /\ connections' = (argv.nodes - 1) * 2
  /\ lines' = <<NodesLine(argv.nodes), ConnectionsLine((argv.nodes - 1) * 2),
                TriggersLine((argv.nodes - 1) * 2), CommentLine>>
  /\ srcs' = RangeList(argv.nodes)
  /\ loc' = [i |-> argv.nodes - 1]
  /\ pc' = "tree_up"
  /\ UNCHANGED <<gen, argc, argv, usage_printed, id, trig_id, started, completed>>

TreeUpFlow ==
  /\ pc = "tree_up"
  /\ loc.i >= 1
  /\ id' = NextId(id)
  /\ lines' = Append(lines, FlowLine(loc.i, parents(loc.i), NextId(id), None, argv.flowsize,
                                     Some(trig_id), None, PlainOrder))
  /\ trig_id' = NextTrig(trig_id)
  /\ loc' = [loc EXCEPT !.i = loc.i - 1]
  /\ UNCHANGED <<gen, argc, argv, out_file_exists, usage_printed, pc, srcs,
                 connections, started, completed>>

TreeUpDone ==
  /\ pc = "tree_up"
  /\ loc.i < 1
  /\ lines' = Append(lines, CommentLine)
  /\ loc' = [parent |-> 0, ci |-> 1]
  /\ pc' = "tree_down"
  /\ UNCHANGED <<gen, argc, argv, out_file_exists, usage_printed, srcs, id, trig_id,
                 connections, started, completed>>

\* a downward flow gated on the trigger it is about to emit
TreeDownGate_Own(t) == t

\* the start gate of a downward flow
TreeDownGate(t) == t - (argv.nodes - 1)

\* the last child treated like its siblings
TreeDownFlow_LastToo ==
  /\ pc = "tree_down"
  /\ loc.parent < argv.nodes /\ loc.ci <= Len(children(loc.parent))
  /\ LET ch == children(loc.parent)
         child == ch[loc.ci]
         notlast == TRUE
     IN /\ id' = NextId(id)
        /\ lines' = Append(lines, FlowLine(loc.parent, child, NextId(id),
                                           Some(TreeDownGate(trig_id)), argv.flowsize,
                                           IF notlast THEN Some(trig_id) ELSE None,
                                           None, PlainOrder))
        /\ trig_id' = IF notlast THEN NextTrig(trig_id) ELSE trig_id
        /\ loc' = [loc EXCEPT !.ci = loc.ci + 1]
  /\ UNCHANGED <<gen, argc, argv, out_file_exists, usage_printed, pc, srcs,
                 connections, started, completed>>

TreeDownFlow ==
  /\ pc = "tree_down"
  /\ loc.parent < argv.nodes /\ loc.ci <= Len(children(loc.parent))
  /\ LET ch == children(loc.parent)
         child == ch[loc.ci]
         notlast == child # ch[Len(ch)]
     IN /\ id' = NextId(id)
        /\ lines' = Append(lines, FlowLine(loc.parent, child, NextId(id),
                                           Some(TreeDownGate(trig_id)), argv.flowsize,
                                           IF notlast THEN Some(trig_id) ELSE None,
                                           None, PlainOrder))
        /\ trig_id' = IF notlast THEN NextTrig(trig_id) ELSE trig_id
        /\ loc' = [loc EXCEPT !.ci = loc.ci + 1]
  /\ UNCHANGED <<gen, argc, argv, out_file_exists, usage_printed, pc, srcs,
                 connections, started, completed>>

TreeDownNextParent ==
  /\ pc = "tree_down"
  /\ loc.parent < argv.nodes /\ loc.ci > Len(children(loc.parent))
  /\ loc' = [loc EXCEPT !.parent = loc.parent + 1, !.ci = 1]
  /\ UNCHANGED <<gen, argc, argv, out_file_exists, usage_printed, pc, lines, srcs,
                 id, trig_id, connections, started, completed>>

TreeDownDone ==
  /\ pc = "tree_down"
  /\ loc.parent >= argv.nodes
  /\ pc' = "trigger_section"
  /\ UNCHANGED <<gen, argc, argv, out_file_exists, usage_printed, lines, srcs, id,
                 trig_id, connections, loc, started, completed>>

(* ----------------------------- supernode ------------------------------- *)
\* arguments on which the supernode script runs to completion
\* (phase1_send_done_triggers[-1] needs a regular node in every iteration)
SupernodeArgsOver(maxNodes, maxIterations, maxSeed) ==
  {a \in [nodes : 0..maxNodes, flowsize : FlowSizes, iterations : 0..maxIterations,
          randseed : 0..maxSeed] : a.nodes >= 2 \/ a.iterations = 0}

SupernodeArgs == SupernodeArgsOver(MaxNodes, MaxIterations, MaxSeed)

supernode_id == argv.nodes - 1

\* regular_nodes = list(range(supernode_id)), shuffled only if randseed != 0
RegularNodes ==
  IF argv.randseed # 0 /\ supernode_id >= 0
  THEN ShuffleSeeded(argv.randseed, supernode_id)
  ELSE RangeList(supernode_id)

SupernodeStart ==
  /\ gen = "supernode" /\ pc = "start" /\ argc = ExpectedArgc("supernode")
  /\ out_file_exists' = TRUE
  /\ lines' = <<NodesLine(argv.nodes)>>
  /\ srcs' = RegularNodes
  /\ loc' = [iteration |-> 0, i |-> 0, next_iteration_trigger |-> None,
             phase1_send_done_triggers |-> <<>>, phase2_trigger |-> None]
  /\ pc' = "sn_p1"
  /\ UNCHANGED <<gen, argc, argv, usage_printed, id, trig_id, connections, started,
                 completed>>

\* a phase-1 send written without its send_done_trigger
SupernodePhase1Flow_NoDone ==
  /\ pc = "sn_p1"
  /\ loc.iteration < argv.iterations /\ loc.i < Len(srcs)
  /\ LET node == srcs[loc.i + 1]
         gate == IF loc.iteration = 0 THEN None ELSE loc.next_iteration_trigger
     IN /\ id' = NextId(id)
        /\ trig_id' = NextTrig(trig_id)
        /\ lines' = Append(lines, FlowLine(node, supernode_id, NextId(id), gate, argv.flowsize,
                                           None, None, PlainOrder))
        /\ loc' = [loc EXCEPT !.i = loc.i + 1,
                              !.phase1_send_done_triggers =
                                 Append(loc.phase1_send_done_triggers, NextTrig(trig_id))]
        /\ connections' = connections + 1
  /\ UNCHANGED <<gen, argc, argv, out_file_exists, usage_printed, pc, srcs, started,
                 completed>>

SupernodePhase1Flow ==
  /\ pc = "sn_p1"
  /\ loc.iteration < argv.iterations /\ loc.i < Len(srcs)
  /\ LET node == srcs[loc.i + 1]
         gate == IF loc.iteration = 0 THEN None ELSE loc.next_iteration_trigger
     IN /\ id' = NextId(id)
        /\ trig_id' = NextTrig(trig_id)
        /\ lines' = Append(lines, FlowLine(node, supernode_id, NextId(id), gate, argv.flowsize,
                                           Some(NextTrig(trig_id)), None, PlainOrder))
        /\ loc' = [loc EXCEPT !.i = loc.i + 1,
                              !.phase1_send_done_triggers =
                                 Append(loc.phase1_send_done_triggers, NextTrig(trig_id))]
        /\ connections' = connections + 1
  /\ UNCHANGED <<gen, argc, argv, out_file_exists, usage_printed, pc, srcs, started,
                 completed>>

\* phase2_start_trigger = phase1_send_done_triggers[-1]
SupernodePhase1Done ==
  /\ pc = "sn_p1"
  /\ loc.iteration < argv.iterations /\ loc.i >= Len(srcs)
  /\ LET p1 == loc.phase1_send_done_triggers
     IN loc' = [loc EXCEPT !.i = 0, !.phase2_trigger = Some(p1[Len(p1)])]
  /\ pc' = "sn_p2"
  /\ UNCHANGED <<gen, argc, argv, out_file_exists, usage_printed, lines, srcs, id,
                 trig_id, connections, started, completed>>

\* every phase-2 send gated on the trigger that starts phase 2
SupernodePhase2Flow_Parallel ==
  /\ pc = "sn_p2"
  /\ loc.i < Len(srcs)
  /\ LET dest == srcs[loc.i + 1]
         p1 == loc.phase1_send_done_triggers
         needs == loc.i < Len(srcs) - 1 \/ loc.iteration < argv.iterations - 1
     IN /\ id' = NextId(id)
        /\ trig_id' = IF needs THEN NextTrig(trig_id) ELSE trig_id
        /\ lines' = Append(lines, FlowLine(supernode_id, dest, NextId(id), Some(p1[Len(p1)]),
                                           argv.flowsize,
                                           IF needs THEN Some(NextTrig(trig_id)) ELSE None,
                                           None, PlainOrder))
        /\ loc' = [loc EXCEPT !.i = loc.i + 1,
                              !.phase2_trigger = IF needs THEN Some(NextTrig(trig_id)) ELSE None]
        /\ connections' = connections + 1
  /\ UNCHANGED <<gen, argc, argv, out_file_exists, usage_printed, pc, srcs, started,
                 completed>>

SupernodePhase2Flow ==
  /\ pc = "sn_p2"
  /\ loc.i < Len(srcs)
  /\ LET dest == srcs[loc.i + 1]
         needs == loc.i < Len(srcs) - 1 \/ loc.iteration < argv.iterations - 1
     IN /\ id' = NextId(id)
        /\ trig_id' = IF needs THEN NextTrig(trig_id) ELSE trig_id
        /\ lines' = Append(lines, FlowLine(supernode_id, dest, NextId(id), loc.phase2_trigger,
                                           argv.flowsize,
                                           IF needs THEN Some(NextTrig(trig_id)) ELSE None,
                                           None, PlainOrder))
        /\ loc' = [loc EXCEPT !.i = loc.i + 1,
                              !.phase2_trigger = IF needs THEN Some(NextTrig(trig_id)) ELSE None]
        /\ connections' = connections + 1
  /\ UNCHANGED <<gen, argc, argv, out_file_exists, usage_printed, pc, srcs, started,
                 completed>>

\* the next iteration released by the trigger that started phase 2
SupernodeIterationEnd_Phase2Start ==
  /\ pc = "sn_p2"
  /\ loc.i >= Len(srcs)
  /\ LET p1 == loc.phase1_send_done_triggers
     IN loc' = [loc EXCEPT !.iteration = loc.iteration + 1, !.i = 0,
                           !.next_iteration_trigger = Some(p1[Len(p1)]),
                           !.phase1_send_done_triggers = <<>>]
  /\ pc' = "sn_p1"
  /\ UNCHANGED <<gen, argc, argv, out_file_exists, usage_printed, lines, srcs, id,
                 trig_id, connections, started, completed>>

\* next_iteration_trigger = phase2_trigger
SupernodeIterationEnd ==
  /\ pc = "sn_p2"
  /\ loc.i >= Len(srcs)
  /\ loc' = [loc EXCEPT !.iteration = loc.iteration + 1, !.i = 0,
                        !.next_iteration_trigger = loc.phase2_trigger,
                        !.phase1_send_done_triggers = <<>>]
  /\ pc' = "sn_p1"
  /\ UNCHANGED <<gen, argc, argv, out_file_exists, usage_printed, lines, srcs, id,
                 trig_id, connections, started, completed>>

SupernodeDone ==
  /\ pc = "sn_p1"
  /\ loc.iteration >= argv.iterations
  /\ pc' = "trigger_section"
  /\ UNCHANGED <<gen, argc, argv, out_file_exists, usage_printed, lines, srcs, id,
                 trig_id, connections, loc, started, completed>>

(* -------------------------------- inc ---------------------------------- *)
\* arguments on which the INC script runs to completion
\* (cid % len(agg_nodes) needs k*k//4 >= 1; last_downlink_trigger[chunks - 1]
\*  needs a chunk)
IncArgsOver(maxNodes, maxK, maxIterations, maxChunks, maxSeed) ==
  [nodes : 0..maxNodes, k : 2..maxK, flowsize : FlowSizes, chunks : 1..maxChunks,
   fid : Fids, iterations : 0..maxIterations, window : 0..MaxWindow,
   randseed : 0..maxSeed]

IncArgs == IncArgsOver(MaxNodes, MaxK, MaxIterations, MaxChunks, MaxSeed)

nodes_per_pod(k) == (k * k) \div 4

\* agg_nodes = list(range(AGG_POD_START, AGG_POD_END + 1)) with AGG_POD = 0
agg_nodes == RangeList(nodes_per_pod(argv.k))

\* every chunk sent to the first aggregator
chunk_to_agg_node_First(cid) == agg_nodes[1]

chunk_to_agg_node(cid) == agg_nodes[(cid % Len(agg_nodes)) + 1]

start_or_trigger_str(start_tr) ==
  IF start_tr = None \/ start_tr = Some(0) THEN None ELSE start_tr

Semantics(dir, rid, cid) ==
  Some([agg_op |-> "SUM", agg_dir |-> dir, fid |-> argv.fid, rid |-> rid, cid |-> cid])

IncStart ==
  /\ gen = "inc" /\ pc = "start" /\ argc = ExpectedArgc("inc")
  /\ out_file_exists' = TRUE
  /\ srcs' = RangeList(argv.nodes)
  /\ lines' = <<NodesLine(argv.nodes)>>
  /\ loc' = [it |-> 0, c |-> 0, h |-> 0,
             last_downlink_trigger |-> [j \in 1..argv.chunks |-> -1],
             iteration_start_trigger |-> None, chunk_start_trigger |-> None,
             last_upload_trig |-> None, last_down_trig |-> None]
  /\ pc' = "inc_iter"
  /\ UNCHANGED <<gen, argc, argv, usage_printed, id, trig_id, connections, started,
                 completed>>

IncIterationBegin ==
  /\ pc = "inc_iter"
  /\ loc.it < argv.iterations
  /\ lines' = lines \o <<CommentLine, CommentLine>>
  /\ loc' = [loc EXCEPT !.c = 0]
  /\ pc' = "inc_chunk"
  /\ UNCHANGED <<gen, argc, argv, out_file_exists, usage_printed, srcs, id, trig_id,
                 connections, started, completed>>

\* CHUNK START CONDITION
ChunkStartTrigger(c, last_downlink_trigger, iteration_start_trigger) ==
  IF c < argv.window THEN iteration_start_trigger
  ELSE LET prev_t == last_downlink_trigger[c - argv.window + 1]
       IN IF prev_t # -1 THEN Some(prev_t) ELSE iteration_start_trigger

IncChunkBegin ==
  /\ pc = "inc_chunk"
  /\ loc.c < argv.chunks
  /\ loc' = [loc EXCEPT !.chunk_start_trigger =
                           ChunkStartTrigger(loc.c, loc.last_downlink_trigger,
                                             loc.iteration_start_trigger),
                        !.last_upload_trig = None, !.h = 0]
  /\ pc' = "inc_up"
  /\ UNCHANGED <<gen, argc, argv, out_file_exists, usage_printed, lines, srcs, id,
                 trig_id, connections, started, completed>>

IncUplinkFlow ==
  /\ pc = "inc_up"
  /\ loc.h < Len(srcs) /\ srcs[loc.h + 1] # chunk_to_agg_node(loc.c)
  /\ id' = NextId(id)
  /\ trig_id' = NextTrig(trig_id)
  /\ lines' = Append(lines, FlowLine(srcs[loc.h + 1], chunk_to_agg_node(loc.c), NextId(id),
                                     start_or_trigger_str(loc.chunk_start_trigger),
                                     argv.flowsize, Some(NextTrig(trig_id)),
                                     Semantics("UP", loc.it + 1, loc.c), IncOrder))
  /\ loc' = [loc EXCEPT !.last_upload_trig = Some(NextTrig(trig_id)), !.h = loc.h + 1]
  /\ connections' = connections + 1
  /\ UNCHANGED <<gen, argc, argv, out_file_exists, usage_printed, pc, srcs, started,
                 completed>>

\* if src == dst_agg: continue
IncUplinkSkip ==
  /\ pc = "inc_up"
  /\ loc.h < Len(srcs) /\ srcs[loc.h + 1] = chunk_to_agg_node(loc.c)
  /\ loc' = [loc EXCEPT !.h = loc.h + 1]
  /\ UNCHANGED <<gen, argc, argv, out_file_exists, usage_printed, pc, lines, srcs,
                 id, trig_id, connections, started, completed>>

\* if last_upload_trig is None: allocate a synthetic trigger
IncUplinkDone ==
  /\ pc = "inc_up"
  /\ loc.h >= Len(srcs)
  /\ LET synth == loc.last_upload_trig = None
     IN /\ trig_id' = IF synth THEN NextTrig(trig_id) ELSE trig_id
        /\ loc' = [loc EXCEPT !.last_upload_trig =
                                 IF synth THEN Some(NextTrig(trig_id)) ELSE loc.last_upload_trig,
                              !.last_down_trig = None, !.h = 0]
  /\ pc' = "inc_down"
  /\ UNCHANGED <<gen, argc, argv, out_file_exists, usage_printed, lines, srcs, id,
                 connections, started, completed>>

\* the start gate of a downlink flow
IncDownGate(last_upload_trig, last_down_trig) == last_upload_trig

IncDownlinkFlow ==
  /\ pc = "inc_down"
  /\ loc.h < Len(srcs) /\ srcs[loc.h + 1] # chunk_to_agg_node(loc.c)
  /\ id' = NextId(id)
  /\ trig_id' = NextTrig(trig_id)
  /\ lines' = Append(lines, FlowLine(chunk_to_agg_node(loc.c), srcs[loc.h + 1], NextId(id),
                                     IncDownGate(loc.last_upload_trig, loc.last_down_trig),
                                     argv.flowsize, Some(NextTrig(trig_id)),
                                     Semantics("DOWN", loc.it + 1, loc.c), IncOrder))
  /\ loc' = [loc EXCEPT !.last_down_trig = Some(NextTrig(trig_id)), !.h = loc.h + 1]
  /\ connections' = connections + 1
  /\ UNCHANGED <<gen, argc, argv, out_file_exists, usage_printed, pc, srcs, started,
                 completed>>

IncDownlinkSkip ==
  /\ pc = "inc_down"
  /\ loc.h < Len(srcs) /\ srcs[loc.h + 1] = chunk_to_agg_node(loc.c)
  /\ loc' = [loc EXCEPT !.h = loc.h + 1]
  /\ UNCHANGED <<gen, argc, argv, out_file_exists, usage_printed, pc, lines, srcs,
                 id, trig_id, connections, started, completed>>

\* if last_down_trig is None: synthetic; last_downlink_trigger[c] = last_down_trig
IncDownlinkDone ==
  /\ pc = "inc_down"
  /\ loc.h >= Len(srcs)
  /\ LET synth == loc.last_down_trig = None
         t == IF synth THEN NextTrig(trig_id) ELSE loc.last_down_trig[1]
     IN /\ trig_id' = IF synth THEN NextTrig(trig_id) ELSE trig_id
        /\ loc' = [loc EXCEPT !.last_down_trig = Some(t),
                              !.last_downlink_trigger[loc.c + 1] = t,
                              !.c = loc.c + 1, !.h = 0]
  /\ pc' = "inc_chunk"
  /\ UNCHANGED <<gen, argc, argv, out_file_exists, usage_printed, lines, srcs, id,
                 connections, started, completed>>

\* iteration_start_trigger = last_downlink_trigger[chunks - 1]
IncIterationEnd ==
  /\ pc = "inc_chunk"
  /\ loc.c >= argv.chunks
  /\ loc' = [loc EXCEPT !.iteration_start_trigger =
                           Some(loc.last_downlink_trigger[argv.chunks]),
                        !.it = loc.it + 1]
  /\ pc' = "inc_iter"
  /\ UNCHANGED <<gen, argc, argv, out_file_exists, usage_printed, lines, srcs, id,
                 trig_id, connections, started, completed>>

IncDone ==
  /\ pc = "inc_iter"
  /\ loc.it >= argv.iterations
  /\ pc' = "trigger_section"
  /\ UNCHANGED <<gen, argc, argv, out_file_exists, usage_printed, lines, srcs, id,
                 trig_id, connections, loc, started, completed>>

(* ------------------- trigger section and summary header ---------------- *)
\* the last ID the closing loop declares
LastDeclared(t) == t

RingTriggerSection ==
  /\ gen = "ring" /\ pc = "trigger_section"
  /\ lines' = lines \o TriggerSectionLines(LastDeclared(trig_id))
  /\ loc' = [trigger_count |-> Len(TriggerSectionLines(LastDeclared(trig_id)))]
  /\ pc' = "header"
  /\ UNCHANGED <<gen, argc, argv, out_file_exists, usage_printed, srcs, id, trig_id,
                 connections, started, completed>>

RingInsertHeader ==
  /\ gen = "ring" /\ pc = "header"
  /\ lines' = InsertHeader(lines, connections, loc.trigger_count)
  /\ pc' = "done"
  /\ UNCHANGED <<gen, argc, argv, out_file_exists, usage_printed, srcs, id, trig_id,
                 connections, loc, started, completed>>

TreeTriggerSection ==
  /\ gen = "tree" /\ pc = "trigger_section"
  /\ lines' = lines \o <<CommentLine>> \o TriggerSectionLines(LastDeclared(trig_id))
  /\ pc' = "done"
  /\ UNCHANGED <<gen, argc, argv, out_file_exists, usage_printed, srcs, id, trig_id,
                 connections, loc, started, completed>>

SupernodeTriggerSection ==
  /\ gen = "supernode" /\ pc = "trigger_section"
  /\ lines' = lines \o TriggerSectionLines(LastDeclared(trig_id))
  /\ loc' = [trigger_count |-> Len(TriggerSectionLines(LastDeclared(trig_id)))]
  /\ pc' = "header"
  /\ UNCHANGED <<gen, argc, argv, out_file_exists, usage_printed, srcs, id, trig_id,
                 connections, started, completed>>

SupernodeInsertHeader ==
  /\ gen = "supernode" /\ pc = "header"
  /\ lines' = InsertHeader(lines, connections, loc.trigger_count)
  /\ pc' = "done"
  /\ UNCHANGED <<gen, argc, argv, out_file_exists, usage_printed, srcs, id, trig_id,
                 connections, loc, started, completed>>

IncTriggerSection ==
  /\ gen = "inc" /\ pc = "trigger_section"
  /\ lines' = lines \o <<CommentLine, CommentLine>> \o TriggerSectionLines(LastDeclared(trig_id))
  /\ pc' = "header"
  /\ UNCHANGED <<gen, argc, argv, out_file_exists, usage_printed, srcs, id, trig_id,
                 connections, loc, started, completed>>

IncInsertHeader ==
  /\ gen = "inc" /\ pc = "header"
  /\ lines' = InsertHeader(lines, connections, trig_id)
  /\ pc' = "done"
  /\ UNCHANGED <<gen, argc, argv, out_file_exists, usage_printed, srcs, id, trig_id,
                 connections, loc, started, completed>>

(* ------------------------------ replay --------------------------------- *)
\* The simulator that replays a schedule: a `start 0` flow starts at time 0,
\* a started flow completes after an arbitrary duration, the completion of a
\* flow fires its send_done_trigger, and a trigger that fires releases every
\* flow gated on it at that instant.
FlowIds == {Flows[n].id : n \in DOMAIN Flows}

FlowById(fl) == CHOOSE l \in Range(Flows) : l.id = fl

Fired == {l.done[1] : l \in {m \in Range(Flows) : m.id \in completed /\ m.done # None}}

ReplayBegin ==
  /\ pc = "done"
  /\ started' = {l.id : l \in {m \in Range(Flows) : m.gate = None}}
  /\ pc' = "replay"
  /\ UNCHANGED <<gen, argc, argv, out_file_exists, usage_printed, lines, srcs, id,
                 trig_id, connections, loc, completed>>

ReplayComplete ==
  /\ pc = "replay"
  /\ \E fl \in started \ completed :
       LET l == FlowById(fl)
           released == IF l.done = None \/ l.done[1] \in Fired THEN {}
                       ELSE {m.id : m \in {x \in Range(Flows) : x.gate = l.done}}
       IN /\ completed' = completed \cup {fl}
          /\ started' = started \cup released
  /\ UNCHANGED <<gen, argc, argv, out_file_exists, usage_printed, pc, lines, srcs,
                 id, trig_id, connections, loc>>

(* ------------------------------- usage --------------------------------- *)
\* wrong number of arguments: print the usage string and exit
RingUsage ==
  /\ gen = "ring" /\ pc = "start" /\ argc # ExpectedArgc("ring")
  /\ usage_printed' = TRUE
  /\ pc' = "exit"
  /\ UNCHANGED <<gen, argc, argv, out_file_exists, lines, srcs, id, trig_id,
                 connections, loc, started, completed>>

TreeUsage ==
  /\ gen = "tree" /\ pc = "start" /\ argc # ExpectedArgc("tree")
  /\ usage_printed' = TRUE
  /\ pc' = "exit"
  /\ UNCHANGED <<gen, argc, argv, out_file_exists, lines, srcs, id, trig_id,
                 connections, loc, started, completed>>

SupernodeUsage ==
  /\ gen = "supernode" /\ pc = "start" /\ argc # ExpectedArgc("supernode")
  /\ usage_printed' = TRUE
  /\ pc' = "exit"
  /\ UNCHANGED <<gen, argc, argv, out_file_exists, lines, srcs, id, trig_id,
                 connections, loc, started, completed>>

\* the usage is printed only after the output file has been opened for writing
IncUsage_AfterOpen ==
  /\ gen = "inc" /\ pc = "start" /\ argc # ExpectedArgc("inc")
  /\ out_file_exists' = TRUE
  /\ lines' = <<>>
  /\ usage_printed' = TRUE
  /\ pc' = "exit"
  /\ UNCHANGED <<gen, argc, argv, srcs, id, trig_id, connections, loc,
                 started, completed>>

IncUsage ==
  /\ gen = "inc" /\ pc = "start" /\ argc # ExpectedArgc("inc")
  /\ usage_printed' = TRUE
  /\ pc' = "exit"
  /\ UNCHANGED <<gen, argc, argv, out_file_exists, lines, srcs, id, trig_id,
                 connections, loc, started, completed>>

Usage == RingUsage \/ TreeUsage \/ SupernodeUsage \/ IncUsage

(* --------------------------- specifications ---------------------------- *)
\* one argument missing, the right number, or one too many
ArgcChoices(g) == (ExpectedArgc(g) - 1)..(ExpectedArgc(g) + 1)

Init ==
  /\ InitCommon
  /\ \/ gen = "ring" /\ argv \in RingArgs
     \/ gen = "tree" /\ argv \in TreeArgs
     \/ gen = "supernode" /\ argv \in SupernodeArgs
     \/ gen = "inc" /\ argv \in IncArgs
  /\ argc \in ArgcChoices(gen)

Generate ==
  \/ RingStart \/ RingPhase1Flow \/ RingPhase1NextS \/ RingPhase1GroupEnd
  \/ RingPhase1Done \/ RingPhase2Flow \/ RingPhase2Done \/ RingPhase3Flow
  \/ RingPhase3NextG \/ RingPhase3Done \/ RingTriggerSection \/ RingInsertHeader
  \/ TreeStart \/ TreeUpFlow \/ TreeUpDone \/ TreeDownFlow \/ TreeDownNextParent
  \/ TreeDownDone \/ TreeTriggerSection
  \/ SupernodeStart \/ SupernodePhase1Flow \/ SupernodePhase1Done
  \/ SupernodePhase2Flow \/ SupernodeIterationEnd \/ SupernodeDone
  \/ SupernodeTriggerSection \/ SupernodeInsertHeader
  \/ IncStart \/ IncIterationBegin \/ IncChunkBegin \/ IncUplinkFlow \/ IncUplinkSkip
  \/ IncUplinkDone \/ IncDownlinkFlow \/ IncDownlinkSkip \/ IncDownlinkDone
  \/ IncIterationEnd \/ IncDone \/ IncTriggerSection \/ IncInsertHeader

Next == Generate \/ Usage

Spec == Init /\ [][Next]_vars

\* generation followed by a replay of the written schedule
ReplayInit ==
  /\ InitCommon
  /\ \/ gen = "ring" /\ argv \in RingArgsOver(ReplayMaxNodes, ReplayMaxSeed)
     \/ gen = "tree" /\ argv \in TreeArgsOver(ReplayMaxNodes, ReplayMaxSeed)
     \/ gen = "supernode"
        /\ argv \in SupernodeArgsOver(ReplayMaxNodes, ReplayMaxIterations, ReplayMaxSeed)
     \/ gen = "inc"
        /\ argv \in IncArgsOver(ReplayMaxNodes, ReplayMaxK, ReplayMaxIterations,
                                ReplayMaxChunks, ReplayMaxSeed)
  /\ argc = ExpectedArgc(gen)

ReplayNext == Generate \/ ReplayBegin \/ ReplayComplete

ReplaySpec == ReplayInit /\ [][ReplayNext]_vars

\* a supernode schedule generated and then replayed
SupernodeReplayInit ==
  /\ InitCommon
  /\ gen = "supernode"
  /\ argv \in SupernodeArgsOver(SupernodeReplayMaxNodes, ReplayMaxIterations,
                                  ReplayMaxSeed)
  /\ argc = ExpectedArgc(gen)

SupernodeReplayNext ==
  \/ SupernodeStart \/ SupernodePhase1Flow \/ SupernodePhase1Done
  \/ SupernodePhase2Flow \/ SupernodeIterationEnd \/ SupernodeDone
  \/ SupernodeTriggerSection \/ SupernodeInsertHeader
  \/ ReplayBegin \/ ReplayComplete

SupernodeReplaySpec == SupernodeReplayInit /\ [][SupernodeReplayNext]_vars

(* ------------------------ reading the schedule ------------------------- *)
\* the file is complete: header, flow lines and trigger section are written
Finished == pc \in {"done", "replay"}

FlowSet == Range(Flows)

DeclaredIds == [n \in DOMAIN Declared |-> Declared[n].tid]

\* how many `trigger id t oneshot` lines declare t
DeclCount(t) == Cardinality({n \in DOMAIN Declared : Declared[n].tid = t})

\* trigger IDs a flow line names as start gate or completion trigger
Referenced(l) == Range(l.gate) \cup Range(l.done)

HeaderValues(kind) == {l.n : l \in {m \in Range(lines) : m.kind = kind}}

SetMax(S) == IF S = {} THEN 0 ELSE CHOOSE x \in S : \A y \in S : y <= x

\* largest trigger ID attached to a flow as its completion trigger
MaxIssued == SetMax(UNION {Range(l.done) : l \in FlowSet})

\* flows that start when flow fl completes
Succ(fl) ==
  LET l == FlowById(fl)
  IN IF l.done = None THEN {} ELSE {m.id : m \in {x \in FlowSet : x.gate = l.done}}

RECURSIVE ReachFrom(_, _)
ReachFrom(frontier, seen) ==
  IF frontier \subseteq seen THEN seen
  ELSE LET new == frontier \ seen
       IN ReachFrom(UNION {Succ(x) : x \in new}, seen \cup new)

\* flows gated, directly or transitively, on the completion of fl
Dependents(fl) == ReachFrom(Succ(fl), {})

(* ------------------------------ claims --------------------------------- *)

\* C1: in a finished schedule every trigger ID named by a flow line, as its
\* start gate or as its completion trigger, is declared by exactly one
\* `trigger id <tid> oneshot` line.
C1_StructuralClosure ==
  Finished => \A l \in FlowSet : \A t \in Referenced(l) : DeclCount(t) = 1

\* C2: in a finished schedule no flow is gated, directly or transitively, on
\* its own completion: the completion-trigger -> start-gate graph has no cycle.
C2_Acyclic ==
  Finished => \A fl \in FlowIds : fl \notin Dependents(fl)

\* a finished schedule with a dependency chain of at least two edges
C2_Witness ==
  /\ Finished
  /\ \E a, b, c \in FlowIds : b \in Succ(a) /\ c \in Succ(b)

\* C3: the Connections header of a finished file is the number of flow lines.
C3_ConnectionsHeader ==
  Finished => HeaderValues("connections") = {Len(Flows)}

\* C4: the Triggers header of a finished file (with at least one flow line)
\* is the number of `trigger id <tid> oneshot` lines.
C4_TriggersHeader ==
  (Finished /\ Flows # <<>>) => HeaderValues("triggers") = {Len(Declared)}

\* chunks of iteration rid with an uplink flow started and a downlink flow
\* not yet completed
UplinkStarted(rid, cid) ==
  \E l \in FlowSet : /\ l.sem # None /\ l.sem[1].agg_dir = "UP"
                     /\ l.sem[1].rid = rid /\ l.sem[1].cid = cid
                     /\ l.id \in started

DownlinksCompleted(rid, cid) ==
  \A l \in FlowSet : (/\ l.sem # None /\ l.sem[1].agg_dir = "DOWN"
                      /\ l.sem[1].rid = rid /\ l.sem[1].cid = cid)
                     => l.id \in completed

Outstanding(rid) ==
  {cid \in 0..(argv.chunks - 1) : UplinkStarted(rid, cid) /\ ~DownlinksCompleted(rid, cid)}

\* C5: while an INC schedule (window >= 1) is replayed, at most `window`
\* chunks of one iteration have an uplink flow started while their downlink
\* flows have not all completed.
C5_WindowedAdmission ==
  (pc = "replay" /\ gen = "inc" /\ argv.window >= 1)
    => \A rid \in 1..argv.iterations : Cardinality(Outstanding(rid)) <= argv.window

\* C6: with seed 0 no shuffle is applied: the node order a generator uses is
\* the ascending order.
C6_SeedZeroAscending ==
  (pc # "start" /\ argv.randseed = 0) => srcs = RangeList(Len(srcs))

\* C7: a finished schedule with at least one flow declares exactly the IDs
\* 1..maxIssued, in order, each once, where maxIssued is the largest trigger
\* ID attached to a flow.
C7_DeclaredUpToMaxIssued ==
  (Finished /\ Flows # <<>>) => DeclaredIds = [t \in 1..MaxIssued |-> t]

\* C8: the flow lines carry the IDs 1, 2, ..., N in file order.
C8_FlowIdsSequential ==
  \A n \in DOMAIN Flows : Flows[n].id = n

\* a finished schedule with at least three flow lines
C8_Witness ==
  Finished /\ Len(Flows) >= 3

\* C9: completion trigger IDs are strictly increasing in flow-ID order, so no
\* trigger is the completion trigger of two flows.
C9_DoneTriggersIncreasing ==
  \A m, n \in DOMAIN Flows :
     (m < n /\ Flows[m].done # None /\ Flows[n].done # None)
       => Flows[m].done[1] < Flows[n].done[1]

\* a finished schedule in which at least three flows carry a completion trigger
C9_Witness ==
  /\ Finished
  /\ Cardinality({n \in DOMAIN Flows : Flows[n].done # None}) >= 3

\* C10: source and destination of every flow line are node IDs in
\* [0, nodes), nodes being the value on the Nodes header line.
C10_EndpointsInRange ==
  \A l \in FlowSet : \A nodes \in HeaderValues("nodes") :
     l.src \in 0..(nodes - 1) /\ l.dst \in 0..(nodes - 1)

\* flow lines written so far, at the points where the ring script enters a
\* ring in phase 1, a leader in phase 2 and a ring in phase 3, when every
\* ring writes p1 flows in phase 1, one in phase 2 and groupsize - 1 in phase 3
RingFlowCounts(p1) ==
  /\ (pc = "ring_p1" /\ loc.s = 0 /\ loc.d = 1) => Len(Flows) = loc.group * p1
  /\ pc = "ring_p2" => Len(Flows) = groups * p1 + loc.g
  /\ (pc = "ring_p3" /\ loc.s = 0)
       => Len(Flows) = groups * p1 + groups + loc.g * (argv.groupsize - 1)
  /\ (pc = "ring_p3" /\ loc.g < groups) => loc.s <= argv.groupsize - 1

\* C11 as stated: every ring writes groupsize - 1 flows in phase 1, one leader
\* flow in phase 2 and groupsize - 1 flows in phase 3.
C11_RingFlowCountsStated ==
  RingFlowCounts(argv.groupsize - 1)

\* C11 amended: every ring writes groupsize * (groupsize - 1) flows in phase 1
\* (groupsize chains of groupsize - 1 steps), one leader flow in phase 2 and
\* groupsize - 1 flows in phase 3.
C11_RingFlowCounts ==
  RingFlowCounts(argv.groupsize * (argv.groupsize - 1))

\* the scenario groups = 1, groupsize = 4, finished: 12 + 1 + 3 flow lines
C11_Witness ==
  /\ Finished /\ gen = "ring"
  /\ groups = 1 /\ argv.groupsize = 4
  /\ Len(Flows) = 16

\* source and destination of the flow lines, in file order
Endpoints == [n \in DOMAIN Flows |-> <<Flows[n].src, Flows[n].dst>>]

\* C12: a finished tree schedule for nodes >= 2 holds nodes - 1 upward flows
\* i -> (i - 1) div branch_factor for i = nodes - 1 down to 1, each with
\* `start 0` and a completion trigger of its own, then nodes - 1 downward
\* flows parent -> child in ascending parent order, one per non-root node.
C12_TreeFlows ==
  (Finished /\ gen = "tree" /\ argv.nodes >= 2) =>
    LET n == argv.nodes
        bf == argv.branch_factor
    IN /\ Len(Flows) = 2 * (n - 1)
       /\ \A j \in 1..(n - 1) :
            /\ Endpoints[j] = <<n - j, (n - j - 1) \div bf>>
            /\ Flows[j].gate = None
            /\ Flows[j].done # None
            /\ \A j2 \in 1..(n - 1) : j2 # j => Flows[j2].done # Flows[j].done
       /\ \A c \in 1..(n - 1) :
            /\ Endpoints[n - 1 + c] = <<(c - 1) \div bf, c>>
            /\ Flows[n - 1 + c].gate # None
       /\ \A a, b \in n..(2 * (n - 1)) : a < b => Flows[a].src <= Flows[b].src

\* the scenario nodes = 4, branch_factor = 2, finished
C12_Witness ==
  /\ Finished /\ gen = "tree"
  /\ argv.nodes = 4 /\ argv.branch_factor = 2
  /\ Endpoints = << <<3, 1>>, <<2, 0>>, <<1, 0>>, <<0, 1>>, <<0, 2>>, <<1, 3>> >>

\* C13: in a finished supernode schedule every iteration's phase 1 holds
\* exactly one flow from each regular node 0..nodes-2 to the supernode
\* nodes-1; in iteration 0 they all have `start 0`, in a later iteration they
\* are all gated on the completion trigger of the final phase-2 send of the
\* iteration before.
C13_SupernodePhase1 ==
  (Finished /\ gen = "supernode" /\ argv.nodes >= 2) =>
    LET regular == argv.nodes - 1
    IN /\ Len(Flows) = argv.iterations * 2 * regular
       /\ \A it \in 0..(argv.iterations - 1) :
            LET base == it * 2 * regular
                phase1 == (base + 1)..(base + regular)
            IN /\ \A j \in phase1 : Flows[j].dst = argv.nodes - 1
               /\ {Flows[j].src : j \in phase1} = 0..(argv.nodes - 2)
               /\ \A j \in (base + regular + 1)..(base + 2 * regular) :
                    Flows[j].src = argv.nodes - 1
               /\ \A j \in phase1 :
                    IF it = 0 THEN Flows[j].gate = None
                    ELSE /\ Flows[base].done # None
                         /\ Flows[j].gate = Flows[base].done

\* a finished supernode schedule with a second iteration and several regular nodes
C13_Witness ==
  /\ Finished /\ gen = "supernode"
  /\ argv.iterations >= 2 /\ argv.nodes >= 3
  /\ \E l \in FlowSet : l.dst = argv.nodes - 1 /\ l.gate # None

\* C14: no flow of a ring schedule (groupsize >= 2) has the same node as
\* source and destination; with a single group the leader flow is no self-loop.
C14_RingNoSelfLoop ==
  (gen = "ring" /\ pc # "start" /\ argv.groupsize >= 2)
    => \A l \in FlowSet : l.src # l.dst

\* the fields a flow line actually carries, in the order they are written
PresentFields(l) ==
  SelectSeq(l.order, LAMBDA f : /\ (f = "send_done_trigger" => l.done # None)
                                /\ (f = "semantics" => l.sem # None))

Position(f, order) == CHOOSE n \in DOMAIN order : order[n] = f

\* the fields of l are the four mandatory ones followed by optional ones, and
\* they appear in the relative order that `order` gives them
FollowsOrder(l, order) ==
  LET fs == PresentFields(l)
  IN /\ Len(fs) >= 4
     /\ SubSeq(fs, 1, 4) = <<"pair", "id", "start", "size">>
     /\ \A a, b \in DOMAIN fs : a < b => Position(fs[a], order) < Position(fs[b], order)

\* C15 as stated: every flow line has its fields in the order pair, id,
\* start-or-trigger, size, optional send_done_trigger, optional semantics.
C15_FieldOrderStated ==
  \A l \in FlowSet :
     FollowsOrder(l, <<"pair", "id", "start", "size", "send_done_trigger", "semantics">>)

\* C15 amended: every flow line has its fields in the order pair, id,
\* start-or-trigger, size, optional semantics, optional send_done_trigger.
C15_FieldOrder ==
  \A l \in FlowSet :
     FollowsOrder(l, <<"pair", "id", "start", "size", "semantics", "send_done_trigger">>)

\* a finished INC schedule with a line that carries both optional fields, and
\* a line of another kind of schedule would carry only send_done_trigger
C15_Witness ==
  /\ Finished /\ gen = "inc"
  /\ \E l \in FlowSet : l.sem # None /\ l.done # None /\ Len(PresentFields(l)) = 6

\* position in Flows of the final step (d = groupsize - 1) of chain s of ring g
RingFinalStep(g, s) ==
  g * argv.groupsize * (argv.groupsize - 1) + s * (argv.groupsize - 1) + (argv.groupsize - 1)

\* position in Flows of the phase-2 leader flow of ring g
RingLeaderFlow(g) == groups * argv.groupsize * (argv.groupsize - 1) + g + 1

\* C17: in a finished ring schedule (groupsize >= 3) the phase-2 leader flow of
\* every ring g is gated on the completion trigger of a final step (step
\* groupsize-1) of ring g's phase-1 reduction.
C17_LeaderAfterFinalStep ==
  (Finished /\ gen = "ring" /\ argv.groupsize >= 3)
    => \A g \in 0..(groups - 1) :
         /\ Flows[RingLeaderFlow(g)].gate # None
         /\ \E s \in 0..(argv.groupsize - 1) :
              Flows[RingFinalStep(g, s)].done = Flows[RingLeaderFlow(g)].gate

\* positions in Flows of the flows of chunk cid of iteration rid in direction dir
IncFlowsOf(dir, rid, cid) ==
  {n \in DOMAIN Flows : Flows[n].sem = Semantics(dir, rid, cid)}

\* C18: in an INC schedule the first downlink flow of a chunk is gated on the
\* completion trigger of the chunk's last uplink flow, and every later
\* downlink flow of the chunk on the completion trigger of the downlink flow
\* before it.
C18_DownlinksChained ==
  gen = "inc" =>
    \A r \in 1..argv.iterations, c \in 0..(argv.chunks - 1) :
      \A n \in IncFlowsOf("DOWN", r, c) :
        IF n - 1 \in IncFlowsOf("DOWN", r, c)
        THEN Flows[n].gate = Flows[n - 1].done
        ELSE /\ IncFlowsOf("UP", r, c) # {}
             /\ Flows[n].gate = Flows[SetMax(IncFlowsOf("UP", r, c))].done

\* C19: in a finished tree schedule the downward flow parent -> child is gated
\* on the completion trigger of the upward flow child -> parent of that child.
C19_DownGatedOnOwnUpward ==
  (Finished /\ gen = "tree" /\ argv.nodes >= 2)
    => \A c \in 1..(argv.nodes - 1) :
         LET down == Flows[argv.nodes - 1 + c]
             up == Flows[argv.nodes - c]
         IN /\ up.src = c /\ down.dst = c
            /\ up.done # None
            /\ down.gate = up.done

\* completion trigger of the last downlink flow of chunk cid of iteration rid;
\* <<>> if that chunk has no downlink flow
LastDownlinkDone(rid, cid) ==
  IF IncFlowsOf("DOWN", rid, cid) = {} THEN None
  ELSE Flows[SetMax(IncFlowsOf("DOWN", rid, cid))].done

\* C20: in a finished INC schedule with window >= 1 the uplink flows of chunk
\* c of iteration r have start 0 if c < window and r is the first iteration,
\* are gated on the completion trigger of the last downlink of chunk chunks-1
\* of iteration r-1 if c < window and r is a later iteration, and on the
\* completion trigger recorded for chunk c-window of iteration r otherwise
\* (the last downlink's, or a trigger of no flow if that chunk has no downlink).
C20_ChunkStartGate ==
  (Finished /\ gen = "inc" /\ argv.window >= 1)
    => \A r \in 1..argv.iterations, c \in 0..(argv.chunks - 1) :
         \A n \in IncFlowsOf("UP", r, c) :
           IF c < argv.window
           THEN IF r = 1 THEN Flows[n].gate = None
                ELSE /\ Flows[n].gate # None
                     /\ Flows[n].gate = LastDownlinkDone(r - 1, argv.chunks - 1)
           ELSE /\ Flows[n].gate # None
                /\ IF IncFlowsOf("DOWN", r, c - argv.window) # {}
                   THEN Flows[n].gate = LastDownlinkDone(r, c - argv.window)
                   ELSE \A l \in FlowSet : l.done # Flows[n].gate

WrongArgc == argc # ExpectedArgc(gen)

\* C16: a run with the wrong number of arguments does nothing but print the
\* usage string and exit: its only step leaves the output file as it was
\* (not created, not truncated, not written), and it is never anywhere but
\* at its start or exited with the usage printed.
C16_UsageBeforeFileIO ==
  /\ [](WrongArgc => \/ pc = "start" /\ ~usage_printed
                     \/ pc = "exit" /\ usage_printed)
  /\ [][WrongArgc => /\ pc' = "exit" /\ usage_printed'
                     /\ UNCHANGED <<out_file_exists, lines>>]_vars

\* an INC run with an argument missing has exited and the schedule that was
\* in the output file before is still there
C16_Witness ==
  /\ gen = "inc" /\ argc = ExpectedArgc("inc") - 1
  /\ pc = "exit" /\ usage_printed
  /\ out_file_exists /\ lines = StaleLines

\* flows that have started and not yet completed
InProgress == started \ completed

\* positions in Flows of the phase-1 and phase-2 sends of iteration it of a
\* supernode schedule
SnPhase1(it) == {it * 2 * (argv.nodes - 1) + i : i \in 1..(argv.nodes - 1)}

SnPhase2(it) ==
  {it * 2 * (argv.nodes - 1) + (argv.nodes - 1) + i : i \in 1..(argv.nodes - 1)}

\* C21: in a finished supernode schedule the phase-2 sends of every iteration
\* form one chain: the first is gated on the completion trigger of the last
\* phase-1 send of the iteration, every later one on the completion trigger of
\* the phase-2 send before it; and while the schedule is replayed at most one
\* phase-2 flow of an iteration is in progress.
C21_Phase2Chain ==
  (Finished /\ gen = "supernode" /\ argv.nodes >= 2)
    => \A it \in 0..(argv.iterations - 1) :
         /\ \A n \in SnPhase2(it) :
              /\ Flows[n].src = supernode_id
              /\ Flows[n].gate # None
              /\ Flows[n].gate = Flows[n - 1].done
         /\ pc = "replay"
              => Cardinality({n \in SnPhase2(it) : Flows[n].id \in InProgress}) <= 1

\* a replay in which one phase-2 send of an iteration has completed and the
\* next one of the same iteration is in progress
C21_Witness ==
  /\ pc = "replay" /\ gen = "supernode" /\ argv.nodes >= 3
  /\ \E it \in 0..(argv.iterations - 1) :
       \E n \in SnPhase2(it) :
          /\ n - 1 \in SnPhase2(it)
          /\ Flows[n - 1].id \in completed
          /\ Flows[n].id \in InProgress

\* C22: a replay that has come to rest (no flow in progress) has started and
\* completed every flow of the schedule.
C22_EveryFlowCompletes ==
  (pc = "replay" /\ InProgress = {}) => completed = FlowIds

\* C23: while a supernode schedule is replayed, a phase-2 flow of an iteration
\* has started only if every phase-1 send of that iteration has completed.
C23_Phase2AfterAllPhase1 ==
  (pc = "replay" /\ gen = "supernode" /\ argv.nodes >= 2)
    => \A it \in 0..(argv.iterations - 1) :
         \A n \in SnPhase2(it) :
            Flows[n].id \in started
              => \A m \in SnPhase1(it) : Flows[m].id \in completed

\* position in Flows of the upward flow of tree node c, and of the downward
\* flow into it
TreeUpFlowOf(c) == argv.nodes - c

TreeDownFlowOf(c) == argv.nodes - 1 + c

\* C24: while a tree schedule is replayed, a downward flow parent -> child
\* has started only if the upward flows into that parent from all of its
\* children have completed.
C24_BroadcastAfterReduction ==
  (pc = "replay" /\ gen = "tree" /\ argv.nodes >= 2)
    => \A c \in 1..(argv.nodes - 1) :
         Flows[TreeDownFlowOf(c)].id \in started
           => \A ch \in 1..(argv.nodes - 1) :
                parents(ch) = parents(c)
                  => Flows[TreeUpFlowOf(ch)].id \in completed

\* position in Flows of step d (1..groupsize-1) of chain s of ring g
RingStep(g, s, d) ==
  g * argv.groupsize * (argv.groupsize - 1) + s * (argv.groupsize - 1) + d

\* C25: in a finished ring schedule, for every ring g and chain s, step d goes
\* from ring position (s+d-1) mod groupsize to ring position (s+d) mod
\* groupsize of the ring's phase-1 ordering; step 1 has `start 0` and every
\* step d >= 2 is gated on the completion trigger of step d-1 of chain s.
C25_RingPhase1Chains ==
  (Finished /\ gen = "ring")
    => \A g \in 0..(groups - 1), s \in 0..(argv.groupsize - 1),
          d \in 1..(argv.groupsize - 1) :
         LET l == Flows[RingStep(g, s, d)]
             gs == argv.groupsize
         IN /\ l.src = GroupSrcsPhase1(g)[((s + d - 1) % gs) + 1]
            /\ l.dst = GroupSrcsPhase1(g)[((s + d) % gs) + 1]
            /\ IF d = 1 THEN l.gate = None
               ELSE /\ l.gate # None
                    /\ l.gate = Flows[RingStep(g, s, d - 1)].done

\* a finished ring schedule with chains of three steps, nodes sorted
C25_Witness ==
  /\ Finished /\ gen = "ring" /\ groups >= 1 /\ argv.groupsize = 4
  /\ argv.locality = 1
  /\ Flows[RingStep(0, 1, 3)].gate # None
  /\ Flows[RingStep(0, 1, 3)].gate = Flows[RingStep(0, 1, 2)].done

\* position in Flows of broadcast hop s (0..groupsize-2) of ring g
RingHop(g, s) ==
  groups * argv.groupsize * (argv.groupsize - 1) + groups + g * (argv.groupsize - 1) + s + 1

\* C26: in a finished ring schedule, broadcast hop s of ring g goes from the
\* node at position s to the node at position s+1 of the ordering phase 1
\* used for ring g, for both values of the locality flag.
C26_Phase3SameOrder ==
  (Finished /\ gen = "ring")
    => \A g \in 0..(groups - 1), s \in 0..(argv.groupsize - 2) :
         /\ Flows[RingHop(g, s)].src = GroupSrcsPhase1(g)[s + 1]
         /\ Flows[RingHop(g, s)].dst = GroupSrcsPhase1(g)[s + 2]

\* C27: in a finished ring schedule, the first broadcast hop of ring g is
\* gated on the completion trigger of ring g's phase-2 leader flow, and every
\* later hop on the completion trigger of the hop before it in the same ring.
C27_Phase3Gates ==
  (Finished /\ gen = "ring")
    => \A g \in 0..(groups - 1), s \in 0..(argv.groupsize - 2) :
         LET l == Flows[RingHop(g, s)]
             before == IF s = 0 THEN Flows[RingLeaderFlow(g)] ELSE Flows[RingHop(g, s - 1)]
         IN l.gate # None /\ l.gate = before.done

\* a finished ring schedule whose broadcast has a second hop
C27_Witness ==
  /\ Finished /\ gen = "ring" /\ groups = 1 /\ argv.groupsize = 3
  /\ Flows[RingHop(0, 0)].gate = Flows[RingLeaderFlow(0)].done
  /\ Flows[RingHop(0, 1)].gate = Flows[RingHop(0, 0)].done
  /\ Flows[RingHop(0, 1)].gate # Flows[RingHop(0, 0)].gate

\* completion triggers written on the flow lines before position n
DoneBefore(n) == UNION {Range(Flows[m].done) : m \in 1..(n - 1)}

\* the flow line at position n carries a completion trigger no earlier line has
FreshDone(n) == Flows[n].done # None /\ Flows[n].done[1] \notin DoneBefore(n)

\* positions in Flows of the agg_dir UP flows of chunk cid of iteration rid
UplinksOf(rid, cid) ==
  {n \in DOMAIN Flows : /\ Flows[n].sem # None
                        /\ Flows[n].sem[1].agg_dir = "UP"
                        /\ Flows[n].sem[1].rid = rid /\ Flows[n].sem[1].cid = cid}

\* C28: in a finished INC schedule, for every iteration r and chunk c, every
\* host other than the aggregator c mod (k*k div 4) sends exactly one uplink
\* flow, to that aggregator; the uplink flows of the chunk share one start
\* gate, are annotated agg_op SUM, agg_dir UP, the given fid, rid r, cid c,
\* and each carries a completion trigger no earlier flow line has.
C28_Uplinks ==
  (Finished /\ gen = "inc")
    => /\ \A l \in FlowSet : l.sem # None /\ l.sem[1].agg_dir \in {"UP", "DOWN"}
                             /\ l.sem[1].rid \in 1..argv.iterations
                             /\ l.sem[1].cid \in 0..(argv.chunks - 1)
       /\ \A r \in 1..argv.iterations, c \in 0..(argv.chunks - 1) :
            LET agg == c % ((argv.k * argv.k) \div 4)
                senders == (0..(argv.nodes - 1)) \ {agg}
                up == UplinksOf(r, c)
            IN /\ {Flows[n].src : n \in up} = senders
               /\ Cardinality(up) = Cardinality(senders)
               /\ \A n \in up :
                    /\ Flows[n].dst = agg
                    /\ Flows[n].sem[1] = [agg_op |-> "SUM", agg_dir |-> "UP",
                                          fid |-> argv.fid, rid |-> r, cid |-> c]
                    /\ FreshDone(n)
                    /\ \A m \in up : Flows[m].gate = Flows[n].gate

\* a finished INC schedule in which chunk 1 of the second iteration is sent
\* up to aggregator 1 by both other hosts
C28_Witness ==
  /\ Finished /\ gen = "inc" /\ argv.nodes = 3 /\ argv.k >= 3
  /\ argv.iterations = 2 /\ argv.chunks >= 2
  /\ {Flows[n].src : n \in UplinksOf(2, 1)} = {0, 2}
  /\ \A n \in UplinksOf(2, 1) : Flows[n].dst = 1 /\ Flows[n].gate # None

\* C29: in a finished supernode schedule the last phase-2 send of the last
\* iteration has no completion trigger and every other flow has one.
C29_OnlyFinalSendWithoutTrigger ==
  (Finished /\ gen = "supernode" /\ argv.nodes >= 2 /\ argv.iterations >= 1)
    => /\ Len(Flows) = argv.iterations * 2 * (argv.nodes - 1)
       /\ \A n \in DOMAIN Flows : (Flows[n].done = None) <=> (n = Len(Flows))

\* a finished supernode schedule of two iterations: the last send of the
\* first iteration carries a trigger, the last send of the second does not
C29_Witness ==
  /\ Finished /\ gen = "supernode" /\ argv.nodes >= 3 /\ argv.iterations = 2
  /\ Flows[2 * (argv.nodes - 1)].done # None
  /\ Flows[Len(Flows)].done = None
  /\ Flows[Len(Flows)].src = supernode_id

\* the last child of the parent of tree node c
LastSibling(c) == SetMax({ch \in 1..(argv.nodes - 1) : parents(ch) = parents(c)})

\* C30: in a finished tree schedule the downward send to the last child of a
\* parent carries no completion trigger, and the send to every other child
\* carries a completion trigger no earlier flow line has.
C30_LastChildNoTrigger ==
  (Finished /\ gen = "tree" /\ argv.nodes >= 2)
    => \A c \in 1..(argv.nodes - 1) :
         /\ Flows[TreeDownFlowOf(c)].dst = c
         /\ Flows[TreeDownFlowOf(c)].src = parents(c)
         /\ IF c = LastSibling(c) THEN Flows[TreeDownFlowOf(c)].done = None
            ELSE FreshDone(TreeDownFlowOf(c))

\* a finished tree schedule in which the root has three children: the first
\* two sends carry triggers, the third does not
C30_Witness ==
  /\ Finished /\ gen = "tree" /\ argv.nodes = 4 /\ argv.branch_factor = 3
  /\ Flows[TreeDownFlowOf(1)].done # None
  /\ Flows[TreeDownFlowOf(2)].done # None
  /\ Flows[TreeDownFlowOf(3)].done = None

====
